---- MODULE Spec2Model ----
(***************************************************************************)
(* State-machine model of the ONNXim co-simulation driver:                 *)
(*   Simulator.cc  (multi-domain clock, arrival heap, cycle loop),         *)
(*   Model.cc      (operator graph loading, ready-queue),                  *)
(*   Dram.cc       (SimpleDram).                                           *)
(* Core, Scheduler, Interconnect and Operation are not part of the source  *)
(* tree at hand; they are modelled from their contracts.                   *)
(***************************************************************************)
EXTENDS Integers, Sequences, FiniteSets, TLC

VARIABLES
  pc,            \* "setup" (models being registered), "run" (inside cycle()), "done"
  workload,      \* models still to be passed to register_model
  _config,       \* SimulationConfig: frequencies
  _core_period, _icnt_period, _dram_period,
  _core_time, _icnt_time, _dram_time,
  _core_cycles,
  _cycle_mask,
  _models,       \* arrival heap (vector kept as a binary heap)
  _scheduler,    \* scheduler state, owns the launched models
  _cores,        \* core_id -> core state
  _icnt,         \* interconnect state
  _dram,         \* SimpleDram state
  next_id,       \* next MemoryAccess id
  hist,          \* history of observable events (not read by the program)
  model,         \* a Model object whose methods are called directly
  calls          \* the request it loads and the history of those calls

vars == <<pc, workload, _config, _core_period, _icnt_period, _dram_period,
          _core_time, _icnt_time, _dram_time, _core_cycles, _cycle_mask,
          _models, _scheduler, _cores, _icnt, _dram, next_id, hist, model, calls>>

-----------------------------------------------------------------------------
(* Bounds of the model *)

\* Step is not taken once the core domain has performed this many cycles.
MaxCycles == 60

(* Configuration values (SimulationConfig) *)
num_cores == 2
dram_channels == 2
dram_latency == 2
dram_req_size == 64

\* Capacity of one interconnect input buffer.
icnt_capacity == 1

Cores == 0 .. (num_cores - 1)
Channels == 0 .. (dram_channels - 1)
Endpoints == 0 .. (num_cores + dram_channels - 1)

\* Frequencies in MHz a configuration may carry.
CoreFreqs == {1000, 500}
IcntFreqs == {1000, 800}
DramFreqs == {1000, 400}

\* Values the member _last_finish_cycle may hold after construction.
LastFinishInit == {0, 7}

Min(a, b) == IF a <= b THEN a ELSE b

\* F applied to v, with v evaluated once, before F is: the statements of the
\* code run one after the other, each on the state the one before has left.
Then(v, F(_)) == CHOOSE r \in {F(x) : x \in {v}} : TRUE
MAX(a, b) == IF a > b THEN a ELSE b
MIN3(a, b, c) == Min(Min(a, b), c)

-----------------------------------------------------------------------------
(* ONNX graphs and workloads *)

KnownOpTypes == {"Conv", "Gemm", "SkipLayerNormalization"}

Input(n, dims) == [name |-> n, dims |-> dims]
Rd(a) == [addr |-> a, write |-> FALSE]
Wr(a) == [addr |-> a, write |-> TRUE]
TileOf(acc, accs) == [accum |-> acc, accs |-> accs]
Node(t, in, out, tiles) == [op_type |-> t, input |-> in, output |-> out, tiles |-> tiles]
Graph(in, init, nodes) == [input |-> in, initializer |-> init, node |-> nodes]

\* one operator, one tile: a read and a write-back
GSingle ==
  Graph(<<Input("x", <<1, 3, 8, 8>>)>>, <<"w">>,
        << Node("Conv", {"x", "w"}, {"a"}, << TileOf(FALSE, <<Rd(0), Wr(64)>>) >>) >>)

\* chain A -> B -> C
GChain ==
  Graph(<<Input("x", <<1, 3, 8, 8>>)>>, <<>>,
        << Node("Conv", {"x"}, {"a"}, << TileOf(FALSE, <<Rd(64)>>) >>),
           Node("Gemm", {"a"}, {"b"}, << TileOf(FALSE, <<Wr(128)>>) >>),
           Node("Conv", {"b"}, {"c"}, << TileOf(FALSE, <<>>) >>) >>)

\* A and B independent, C joins them; A has two tiles, the second accumulating
GJoin ==
  Graph(<<Input("x", <<1, 3, 8, 8>>)>>, <<"w">>,
        << Node("Conv", {"x"}, {"a"},
                << TileOf(FALSE, <<Rd(0)>>), TileOf(TRUE, <<Wr(192)>>) >>),
           Node("Gemm", {"x", "w"}, {"b"}, << TileOf(FALSE, <<Rd(64), Rd(128)>>) >>),
           Node("Conv", {"a", "b"}, {"c"}, << TileOf(FALSE, <<Wr(0)>>) >>) >>)

\* the producer of "u" has an operator type the factory does not know
GSkipped ==
  Graph(<<Input("x", <<1, 3, 8, 8>>)>>, <<>>,
        << Node("Conv", {"x"}, {"a"}, << TileOf(FALSE, <<Rd(0)>>) >>),
           Node("Custom", {"a"}, {"u"}, << TileOf(FALSE, <<>>) >>),
           Node("Gemm", {"u"}, {"b"}, << TileOf(FALSE, <<Wr(64)>>) >>) >>)

\* two SkipLayerNormalization nodes, then a consumer
GAtten ==
  Graph(<<Input("x", <<1, 3, 8, 8>>)>>, <<>>,
        << Node("SkipLayerNormalization", {"x"}, {"a"}, << TileOf(FALSE, <<Rd(0)>>) >>),
           Node("SkipLayerNormalization", {"a"}, {"b"}, << TileOf(FALSE, <<>>) >>),
           Node("Gemm", {"b"}, {"c"}, << TileOf(FALSE, <<Wr(64)>>) >>) >>)

\* two independent operators whose tiles read the same channel
GContend ==
  Graph(<<Input("x", <<1, 3, 8, 8>>)>>, <<>>,
        << Node("Conv", {"x"}, {"a"}, << TileOf(FALSE, <<Rd(0), Rd(128)>>) >>),
           Node("Gemm", {"x"}, {"b"}, << TileOf(FALSE, <<Rd(0), Rd(128)>>) >>) >>)

\* one tile reading both channels, the second channel twice
GFan ==
  Graph(<<Input("x", <<1, 3, 8, 8>>)>>, <<>>,
        << Node("Conv", {"x"}, {"a"}, << TileOf(FALSE, <<Rd(0), Rd(64), Rd(192)>>) >>) >>)

Req(id, r, g, k) == [id |-> id, request_time |-> r, graph |-> g, nr_atten |-> k]

\* The sequences of register_model calls the model explores.
Workloads ==
  { << Req(1, 0, GSingle, -1) >>,
    << Req(1, 0, GChain, -1) >>,
    << Req(1, 2000, GJoin, -1) >>,
    << Req(1, 0, GSkipped, -1) >>,
    << Req(1, 0, GAtten, 1) >>,
    << Req(1, 0, GContend, -1) >>,
    << Req(1, 0, GFan, -1) >>,
    << Req(1, 3500, GSingle, -1), Req(2, 0, GChain, -1) >>,
    << Req(1, 0, GJoin, -1), Req(2, 2000, GSingle, -1) >>,
    << Req(1, 2000, GSingle, -1), Req(2, 2000, GSingle, -1) >> }

-----------------------------------------------------------------------------
(* Operation: contract of the operator objects (spec section 3) *)

\* generate_id: ids are unique over all models; the i-th node of model mid.
generate_id(mid, i) == mid * 10 + i

\* Operation created by OperationFactory::create_operation for a known type;
\* initialize_tiles fills its tile list.
NewOperation(np) ==
  [optype |-> np.op_type, inputs |-> np.input, outputs |-> np.output,
   finished |-> FALSE, tiles |-> np.tiles]

\* An operation is executable iff all its inputs are produced and it is not finished.
check_executable(m, id) ==
  /\ \A t \in m._operation_map[id].inputs : t \in m.produced
  /\ ~ m._operation_map[id].finished

\* set_finish: the operation is finished and its output tensors are produced.
set_finish(m, id) ==
  [m EXCEPT !._operation_map[id].finished = TRUE,
            !.produced = @ \cup m._operation_map[id].outputs]

\* The ids of a set of operations in increasing order (std::map iteration order).
RECURSIVE SortedIds(_)
SortedIds(S) ==
  IF S = {} THEN <<>>
  ELSE LET lo == CHOOSE x \in S : \A y \in S : x <= y
       IN <<lo>> \o SortedIds(S \ {lo})

\* n times the sequence q.
RECURSIVE Repeat(_, _)
Repeat(q, n) == IF n = 0 THEN <<>> ELSE q \o Repeat(q, n - 1)

RECURSIVE Flatten(_)
Flatten(qq) == IF qq = <<>> THEN <<>> ELSE Head(qq) \o Flatten(Tail(qq))

\* Operations consuming an output tensor of operation id, each listed once for
\* every output tensor of id that it consumes.
get_child_nodes(m, id) ==
  LET children == SortedIds({c \in DOMAIN m._operation_map :
                     m._operation_map[c].inputs \cap m._operation_map[id].outputs # {}})
  IN Flatten([k \in 1 .. Len(children) |->
                Repeat(<<children[k]>>,
                       Cardinality(m._operation_map[children[k]].inputs
                                   \cap m._operation_map[id].outputs))])

\* Operations producing an input tensor of operation id.
Producers(m, id) ==
  {p \in DOMAIN m._operation_map :
     m._operation_map[p].outputs \cap m._operation_map[id].inputs # {}}

-----------------------------------------------------------------------------
(* Model.cc *)

\* Mutant: the conversion does not ask how many inputs the model has.
ConvertInput_EveryInput(n_inputs, dim) ==
  IF Len(dim) = 4 /\ dim[3] = dim[4]
  THEN <<dim[1], dim[3], dim[4], dim[2]>>
  ELSE dim

\* NCHW to NHWC conversion of one model input (Model.cc:66-71).
ConvertInput(n_inputs, dim) ==
  IF n_inputs = 1 /\ Len(dim) = 4 /\ dim[3] = dim[4]
  THEN <<dim[1], dim[3], dim[4], dim[2]>>
  ELSE dim

\* The node loop of initialize_model (Model.cc:88-99): nodes[i..] are still to
\* be visited; a node of unknown type yields no operation; the loop stops at
\* the SkipLayerNormalization node that reaches 2 * nr_atten.
RECURSIVE LoadNodes(_, _, _, _, _, _)
LoadNodes(mid, nodes, i, nr_atten, ops, nr_skip) ==
  IF i > Len(nodes) THEN [ops |-> ops, nr_skip |-> nr_skip]
  ELSE IF nodes[i].op_type \notin KnownOpTypes
       THEN LoadNodes(mid, nodes, i + 1, nr_atten, ops, nr_skip)
       ELSE LET added == ops @@ (generate_id(mid, i) :> NewOperation(nodes[i]))
                counted == nodes[i].op_type = "SkipLayerNormalization" /\ nr_atten # -1
                skip == IF counted THEN nr_skip + 1 ELSE nr_skip
            IN IF counted /\ skip >= nr_atten * 2
               THEN [ops |-> [added EXCEPT ![generate_id(mid, i)].outputs = {}], nr_skip |-> skip]
               ELSE LoadNodes(mid, nodes, i + 1, nr_atten, added, skip)

\* The ready-queue seeding loop (Model.cc:101-106).
RECURSIVE SeedExecutable(_, _)
SeedExecutable(m, ids) ==
  IF ids = <<>> THEN m
  ELSE LET id == Head(ids)
           m1 == IF check_executable(m, id)
                 THEN [m EXCEPT !._executable_layer = Append(@, id)]
                 ELSE m
       IN SeedExecutable(m1, Tail(ids))

\* Model::Model: the object before initialize_model.
NewModel(r) ==
  [id |-> r.id, request_time |-> r.request_time, shapes |-> <<>>, produced |-> {},
   _operation_map |-> <<>>, nr_skip |-> 0, _executable_layer |-> <<>>]

\* Model::initialize_model applied to a registered model.
initialize_model(r) ==
  LET g == r.graph
      shapes == [n \in {g.input[k].name : k \in 1 .. Len(g.input)} |->
                   LET k == CHOOSE j \in 1 .. Len(g.input) : g.input[j].name = n
                   IN ConvertInput(Len(g.input), g.input[k].dims)]
      loaded == LoadNodes(r.id, g.node, 1, r.nr_atten, <<>>, 0)
      m0 == [id |-> r.id, request_time |-> r.request_time,
             shapes |-> shapes,
             produced |-> DOMAIN shapes \cup {g.initializer[k] : k \in 1 .. Len(g.initializer)},
             _operation_map |-> loaded.ops,
             nr_skip |-> loaded.nr_skip,
             _executable_layer |-> <<>>]
  IN SeedExecutable(m0, SortedIds(DOMAIN m0._operation_map))

\* Model::check_exist_in_exeutable
check_exist_in_exeutable(m, op_id) ==
  \E k \in 1 .. Len(m._executable_layer) : m._executable_layer[k] = op_id

\* Mutant: a child is appended without asking whether it is executable.
RECURSIVE AppendChildren_NoCheck(_, _)
AppendChildren_NoCheck(m, children) ==
  IF children = <<>> THEN m
  ELSE LET op == Head(children)
           m1 == IF ~ check_exist_in_exeutable(m, op)
                 THEN [m EXCEPT !._executable_layer = Append(@, op)]
                 ELSE m
       IN AppendChildren_NoCheck(m1, Tail(children))

\* Mutant: an executable child is appended without the membership check.
RECURSIVE AppendChildren_NoMembership(_, _)
AppendChildren_NoMembership(m, children) ==
  IF children = <<>> THEN m
  ELSE LET op == Head(children)
           m1 == IF check_executable(m, op)
                 THEN [m EXCEPT !._executable_layer = Append(@, op)]
                 ELSE m
       IN AppendChildren_NoMembership(m1, Tail(children))

\* The loop over the children in set_layer_finish (Model.cc:116-121).
RECURSIVE AppendChildren(_, _)
AppendChildren(m, children) ==
  IF children = <<>> THEN m
  ELSE LET op == Head(children)
           m1 == IF check_executable(m, op) /\ ~ check_exist_in_exeutable(m, op)
                 THEN [m EXCEPT !._executable_layer = Append(@, op)]
                 ELSE m
       IN AppendChildren(m1, Tail(children))

\* Model::set_layer_finish
set_layer_finish(m, id) ==
  AppendChildren(set_finish(m, id), get_child_nodes(m, id))

\* Model::get_executable_tile: the dequeued operation (0 for nullptr) and the model after.
get_executable_tile(m) ==
  IF Len(m._executable_layer) > 0
  THEN [op |-> Head(m._executable_layer),
        model |-> [m EXCEPT !._executable_layer = Tail(@)]]
  ELSE [op |-> 0, model |-> m]

\* Model::check_finish
check_finish(m) ==
  \A id \in DOMAIN m._operation_map : m._operation_map[id].finished

-----------------------------------------------------------------------------
(* Scheduler, simple policy (contract of spec section 4.6) *)

SentinelTile ==
  [status |-> "EMPTY", model |-> 0, layer_id |-> 0, idx |-> 0,
   accum |-> FALSE, accs |-> <<>>]

TilesOf(mid, id, op) ==
  [i \in 1 .. Len(op.tiles) |->
     [status |-> "INITIALIZED", model |-> mid, layer_id |-> id, idx |-> i,
      accum |-> op.tiles[i].accum, accs |-> op.tiles[i].accs]]

\* Moves every executable layer of the models k.. into the global tile FIFO.
RECURSIVE PullLayers(_, _)
PullLayers(sch, k) ==
  IF k > Len(sch.models) THEN sch
  ELSE LET got == get_executable_tile(sch.models[k])
       IN IF got.op = 0 THEN PullLayers(sch, k + 1)
          ELSE LET op == got.model._operation_map[got.op]
               IN PullLayers(
                    [sch EXCEPT !.models[k] = got.model,
                                !.tiles = @ \o TilesOf(got.model.id, got.op, op),
                                !.active = @ @@ (got.op :> [total |-> Len(op.tiles), done |-> 0])],
                    k)

schedule_model(sch, m) ==
  PullLayers([sch EXCEPT !.models = Append(@, m)], 1)

\* empty(): no model has a tile pending assignment and no layer is outstanding,
\* i.e. every operation of every model the scheduler holds is finished.
SchedulerEmpty(sch) ==
  \A k \in 1 .. Len(sch.models) : check_finish(sch.models[k])

is_accum_tile(sch, core_id) ==
  sch.tiles # <<>> /\ Head(sch.tiles).accum

get_tile(sch, core_id) ==
  IF sch.tiles # <<>>
  THEN [tile |-> Head(sch.tiles), sch |-> [sch EXCEPT !.tiles = Tail(@)]]
  ELSE [tile |-> SentinelTile, sch |-> sch]

RemoveAt(seq, k) == SubSeq(seq, 1, k - 1) \o SubSeq(seq, k + 1, Len(seq))

\* finish_tile: one more tile of the layer is complete; with the last one the
\* layer is marked finished on its model, and a model all of whose operations
\* are finished leaves the scheduler.
finish_tile(sch, core_id, layer_id) ==
  LET st == sch.active[layer_id]
  IN IF st.done + 1 < st.total
     THEN [sch EXCEPT !.active[layer_id].done = @ + 1]
     ELSE LET k == CHOOSE j \in 1 .. Len(sch.models) :
                     layer_id \in DOMAIN sch.models[j]._operation_map
              m == set_layer_finish(sch.models[k], layer_id)
              act == [l \in DOMAIN sch.active \ {layer_id} |-> sch.active[l]]
              sch1 == [sch EXCEPT !.active = act,
                                  !.models = IF check_finish(m) THEN RemoveAt(@, k)
                                             ELSE [@ EXCEPT ![k] = m]]
          IN PullLayers(sch1, 1)

-----------------------------------------------------------------------------
(* Core (contract of spec section 4.2) *)

NewCore ==
  [_tiles |-> <<>>, _finished_tiles |-> <<>>, _request_queue |-> <<>>,
   waiting |-> 0, has_acc |-> FALSE]

\* A tile may be accepted when none is in flight; an accumulation tile only
\* after an earlier issue on this core.
can_issue(core, is_accum) ==
  core._tiles = <<>> /\ (is_accum => core.has_acc)

issue(core, tile) ==
  [core EXCEPT !._tiles = Append(@, [tile EXCEPT !.status = "RUNNING"] @@ [next |-> 1]),
               !.has_acc = TRUE]

pop_finished_tile(core) ==
  IF core._finished_tiles # <<>>
  THEN [tile |-> Head(core._finished_tiles),
        core |-> [core EXCEPT !._finished_tiles = Tail(@)]]
  ELSE [tile |-> SentinelTile, core |-> core]

\* One core cycle: the tile in flight emits its next memory request, or, with
\* all requests emitted and answered, becomes FINISH.
CoreCycle(core, core_id, id) ==
  IF core._tiles = <<>> THEN core
  ELSE LET t == Head(core._tiles)
       IN IF t.next <= Len(t.accs)
          THEN [core EXCEPT
                  !._tiles[1].next = @ + 1,
                  !.waiting = @ + 1,
                  !._request_queue =
                     Append(@, [id |-> id, request |-> TRUE,
                                write |-> t.accs[t.next].write,
                                dram_address |-> t.accs[t.next].addr,
                                core_id |-> core_id])]
          ELSE IF core.waiting = 0
               THEN [core EXCEPT
                       !._tiles = Tail(@),
                       !._finished_tiles =
                          Append(@, [status |-> "FINISH", model |-> t.model,
                                     layer_id |-> t.layer_id, idx |-> t.idx,
                                     accum |-> t.accum, accs |-> t.accs])]
               ELSE core

\* Whether CoreCycle creates a MemoryAccess.
Emits(core) ==
  core._tiles # <<>> /\ Head(core._tiles).next <= Len(Head(core._tiles).accs)

has_memory_request(core) == core._request_queue # <<>>
top_memory_request(core) == Head(core._request_queue)
pop_memory_request(core) == [core EXCEPT !._request_queue = Tail(@)]
push_memory_response(core, access) == [core EXCEPT !.waiting = @ - 1]

\* running(): true iff any work is in flight.
CoreRunning(core) ==
  \/ core._tiles # <<>>
  \/ core._finished_tiles # <<>>
  \/ core._request_queue # <<>>
  \/ core.waiting # 0

-----------------------------------------------------------------------------
(* Interconnect, simple model (contract of spec section 4.4) *)

NewIcnt ==
  [in_buf |-> [e \in Endpoints |-> <<>>], out_buf |-> [e \in Endpoints |-> <<>>],
   _cycles |-> 0]

IcntIsFull(ic, src, access) == Len(ic.in_buf[src]) >= icnt_capacity
IcntPush(ic, src, dst, access) ==
  [ic EXCEPT !.in_buf[src] = Append(@, [dst |-> dst, access |-> access])]
IcntIsEmpty(ic, dst) == ic.out_buf[dst] = <<>>
IcntTop(ic, dst) == Head(ic.out_buf[dst])
IcntPop(ic, dst) == [ic EXCEPT !.out_buf[dst] = Tail(@)]

\* cycle(): the packet at the head of an input buffer reaches its destination;
\* a destination accepts one packet per cycle, the lowest source first, and the
\* packets of the other sources stay in their input buffers.
RECURSIVE IcntRoute(_, _, _)
IcntRoute(ic, src, served) ==
  IF src \notin Endpoints THEN ic
  ELSE IF ic.in_buf[src] = <<>> \/ Head(ic.in_buf[src]).dst \in served
       THEN IcntRoute(ic, src + 1, served)
       ELSE LET p == Head(ic.in_buf[src])
            IN IcntRoute([ic EXCEPT !.in_buf[src] = Tail(@),
                                    !.out_buf[p.dst] = Append(@, p.access)],
                         src + 1, served \cup {p.dst})

IcntCycle(ic) == [IcntRoute(ic, 0, {}) EXCEPT !._cycles = @ + 1]

IcntRunning(ic) ==
  \E e \in Endpoints : ic.in_buf[e] # <<>> \/ ic.out_buf[e] # <<>>

-----------------------------------------------------------------------------
(* Dram.cc: SimpleDram *)

\* SimpleDram::SimpleDram; _last_finish_cycle is not set by the constructor.
NewDram(garbage) ==
  [_cycles |-> 0,
   _waiting_queue |-> [ch \in Channels |-> <<>>],
   _response_queue |-> [ch \in Channels |-> <<>>],
   _last_finish_cycle |-> garbage]

\* SimpleDram::running
DramRunning(d) == FALSE

\* Mutant: the head of a waiting queue moves whatever its stamp.
DramReady_Always(d, ch) == d._waiting_queue[ch] # <<>>

\* The head of a waiting queue moves when its stamp has been reached (Dram.cc:19-20).
DramReady(d, ch) ==
  d._waiting_queue[ch] # <<>> /\ Head(d._waiting_queue[ch]).first <= d._cycles

\* Mutant: every waiting entry whose stamp has been reached moves.
DramCycle_DrainAll(d) ==
  LET ready(ch) == SelectSeq(d._waiting_queue[ch], LAMBDA e : e.first <= d._cycles)
      rest(ch) == SelectSeq(d._waiting_queue[ch], LAMBDA e : e.first > d._cycles)
  IN [d EXCEPT
        !._response_queue = [ch \in Channels |->
           @[ch] \o [i \in 1 .. Len(ready(ch)) |-> ready(ch)[i].second]],
        !._waiting_queue = [ch \in Channels |-> rest(ch)],
        !._cycles = @ + 1]

\* Mutant: only the first channel is served.
DramCycle_FirstChannelOnly(d) ==
  [d EXCEPT
     !._response_queue = [ch \in Channels |->
        IF ch = 0 /\ DramReady(d, ch) THEN Append(@[ch], Head(d._waiting_queue[ch]).second)
        ELSE @[ch]],
     !._waiting_queue = [ch \in Channels |->
        IF ch = 0 /\ DramReady(d, ch) THEN Tail(@[ch]) ELSE @[ch]],
     !._cycles = @ + 1]

\* SimpleDram::cycle
DramCycle(d) ==
  [d EXCEPT
     !._response_queue = [ch \in Channels |->
        IF DramReady(d, ch) THEN Append(@[ch], Head(d._waiting_queue[ch]).second)
        ELSE @[ch]],
     !._waiting_queue = [ch \in Channels |->
        IF DramReady(d, ch) THEN Tail(@[ch]) ELSE @[ch]],
     !._cycles = @ + 1]

\* SimpleDram::is_full
DramIsFull(d, cid, request) == FALSE

\* Mutant: an access is stamped at least one cycle after the one before it.
DramPush_Serialized(d, cid, request) ==
  LET first == MAX(d._cycles + dram_latency, d._last_finish_cycle + 1)
  IN [d EXCEPT
        !._last_finish_cycle = first,
        !._waiting_queue[cid] =
           Append(@, [first |-> first, second |-> [request EXCEPT !.request = FALSE]])]

\* Mutant: the direction flag of the pushed access is left as it is.
DramPush_NoFlip(d, cid, request) ==
  LET first == MAX(d._cycles + dram_latency, d._last_finish_cycle)
  IN [d EXCEPT
        !._last_finish_cycle = first,
        !._waiting_queue[cid] = Append(@, [first |-> first, second |-> request])]

\* SimpleDram::push
DramPush(d, cid, request) ==
  LET first == MAX(d._cycles + dram_latency, d._last_finish_cycle)
  IN [d EXCEPT
        !._last_finish_cycle = first,
        !._waiting_queue[cid] =
           Append(@, [first |-> first, second |-> [request EXCEPT !.request = FALSE]])]

\* SimpleDram::is_empty
DramIsEmpty(d, cid) == d._response_queue[cid] = <<>>

\* SimpleDram::top
DramTop(d, cid) == Head(d._response_queue[cid])

\* Mutant: pop leaves the response queue as it is.
DramPop_Keeps(d, cid) == d

\* SimpleDram::pop
DramPop(d, cid) == [d EXCEPT !._response_queue[cid] = Tail(@)]

\* SimpleDram::get_channel_id
get_channel_id(access) ==
  (access.dram_address \div dram_req_size) % dram_channels

-----------------------------------------------------------------------------
(* Simulator.cc: arrival heap *)

\* CompareModel orders the heap so that its front has the least request time.
CompareModel(a, b) == a.request_time > b.request_time

Swap(v, i, j) == [v EXCEPT ![i] = v[j], ![j] = v[i]]

RECURSIVE SiftUp(_, _)
SiftUp(v, i) ==
  IF i > 1 /\ CompareModel(v[i \div 2], v[i])
  THEN SiftUp(Swap(v, i, i \div 2), i \div 2)
  ELSE v

RECURSIVE SiftDown(_, _, _)
SiftDown(v, i, n) ==
  LET l == 2 * i
      r == 2 * i + 1
      a == IF l <= n /\ CompareModel(v[i], v[l]) THEN l ELSE i
      b == IF r <= n /\ CompareModel(v[a], v[r]) THEN r ELSE a
  IN IF b # i THEN SiftDown(Swap(v, i, b), b, n) ELSE v

\* std::push_heap on the vector whose last element is new
push_heap(v) == SiftUp(v, Len(v))

\* std::pop_heap followed by pop_back
pop_heap(v) ==
  LET n == Len(v)
  IN IF n <= 1 THEN <<>> ELSE SubSeq(SiftDown(Swap(v, 1, n), 1, n - 1), 1, n - 1)

-----------------------------------------------------------------------------
(* Simulator.cc: clock *)

\* Period of a domain in the constructor (Simulator.cc:14-16).
Period(freq) == 1000000 \div freq

\* Mutant: every domain ticks in every step.
Ticks_Always(time, minimum_time) == TRUE

\* The test that makes a domain tick (Simulator.cc:205, 209, 213).
Ticks(time, minimum_time) == time <= minimum_time

\* Mutant: the minimum is taken again after each domain has advanced.
set_cycle_mask_MovingMin(core_time, dram_time, icnt_time, core_period, dram_period, icnt_period) ==
  LET c == core_time <= MIN3(core_time, dram_time, icnt_time)
      core1 == IF c THEN core_time + core_period ELSE core_time
      d == dram_time <= MIN3(core1, dram_time, icnt_time)
      dram1 == IF d THEN dram_time + dram_period ELSE dram_time
      i == icnt_time <= MIN3(core1, dram1, icnt_time)
      icnt1 == IF i THEN icnt_time + icnt_period ELSE icnt_time
  IN [mask |-> (IF c THEN {"CORE_MASK"} ELSE {}) \cup (IF d THEN {"DRAM_MASK"} ELSE {})
               \cup (IF i THEN {"ICNT_MASK"} ELSE {}),
      core_time |-> core1, dram_time |-> dram1, icnt_time |-> icnt1]

\* Simulator::set_cycle_mask: the mask and the three accumulated times after it.
set_cycle_mask(core_time, dram_time, icnt_time, core_period, dram_period, icnt_period) ==
  LET minimum_time == MIN3(core_time, dram_time, icnt_time)
  IN [mask |-> (IF Ticks(core_time, minimum_time) THEN {"CORE_MASK"} ELSE {})
               \cup (IF Ticks(dram_time, minimum_time) THEN {"DRAM_MASK"} ELSE {})
               \cup (IF Ticks(icnt_time, minimum_time) THEN {"ICNT_MASK"} ELSE {}),
      core_time |-> IF Ticks(core_time, minimum_time) THEN core_time + core_period
                    ELSE core_time,
      dram_time |-> IF Ticks(dram_time, minimum_time) THEN dram_time + dram_period
                    ELSE dram_time,
      icnt_time |-> IF Ticks(icnt_time, minimum_time) THEN icnt_time + icnt_period
                    ELSE icnt_time]

-----------------------------------------------------------------------------
(* Simulator.cc: the body of the loop of cycle(), on a record s of the        *)
(* simulator's members                                                        *)

Log(s, e) == [s EXCEPT !.hist.events = Append(@, e)]
Mark(s, label) == [s EXCEPT !.hist.order = Append(@, label)]

\* Mutant: the request time of the front model is not compared with the core time.
Arrived_NoTimeCheck(models, core_time) == models # <<>>

\* The loop condition of handle_model (Simulator.cc:88).
Arrived(models, core_time) ==
  models # <<>> /\ models[1].request_time <= core_time

\* Simulator::handle_model
RECURSIVE handle_model(_)
handle_model(s) ==
  IF Arrived(s._models, s._core_time)
  THEN LET launch_model == s._models[1]
           m == [initialize_model(launch_model) EXCEPT !.request_time = s._core_time]
           s1 == [s EXCEPT !._models = pop_heap(@),
                           !._scheduler = schedule_model(@, m)]
       IN Then(Log(s1, [kind |-> "admit", model |-> launch_model.id,
                        r |-> launch_model.request_time, T |-> s.hist.T,
                        now |-> s._core_time, cycle |-> s._core_cycles]),
               LAMBDA x : handle_model(x))
  ELSE s

\* For the history: the producers and the number of tiles of a layer of a live model.
LayerDeps(sch, layer_id) ==
  UNION {Producers(sch.models[j], layer_id) :
           j \in {i \in 1 .. Len(sch.models) : layer_id \in DOMAIN sch.models[i]._operation_map}}

LayerTiles(sch, layer_id) ==
  IF layer_id \in DOMAIN sch.active THEN sch.active[layer_id].total ELSE 0

\* Mutant: the driver does not consult can_issue.
IssueGate_NoCanIssue(sched_empty, can) == ~ sched_empty

\* The conditions under which the driver asks for a tile (Simulator.cc:120-122).
IssueGate(sched_empty, can) == ~ sched_empty /\ can

\* The condition under which the tile obtained is issued (Simulator.cc:124).
Issuable(tile) == tile.status = "INITIALIZED"

\* Issue new tile to core (Simulator.cc:119-128).
IssueTile(s, core_id) ==
  LET sched_empty == SchedulerEmpty(s._scheduler)
      is_accum == ~ sched_empty /\ is_accum_tile(s._scheduler, core_id)
      can == can_issue(s._cores[core_id], is_accum)
  IN IF IssueGate(sched_empty, can)
     THEN LET got == get_tile(s._scheduler, core_id)
              s1 == [s EXCEPT !._scheduler = got.sch]
          IN IF Issuable(got.tile)
             THEN Log([s1 EXCEPT !._cores[core_id] = issue(@, got.tile)],
                      [kind |-> "issue", core |-> core_id, model |-> got.tile.model,
                       layer |-> got.tile.layer_id, idx |-> got.tile.idx,
                       status |-> got.tile.status, can |-> can,
                       deps |-> LayerDeps(s._scheduler, got.tile.layer_id),
                       ntiles |-> LayerTiles(s._scheduler, got.tile.layer_id),
                       nonempty |-> ~ sched_empty, cycle |-> s._core_cycles,
                       T |-> s.hist.T, now |-> s._core_time])
             ELSE s1
     ELSE s

\* One iteration of the loop over the cores in the core tick (Simulator.cc:115-129).
CoreIteration(s, core_id) ==
  LET popped == pop_finished_tile(s._cores[core_id])
      s1 == Mark([s EXCEPT !._cores[core_id] = popped.core], <<"finish", core_id>>)
      s2 == IF popped.tile.status = "FINISH"
            THEN Log([s1 EXCEPT !._scheduler =
                         finish_tile(@, core_id, popped.tile.layer_id)],
                     [kind |-> "finish", core |-> core_id, model |-> popped.tile.model,
                      layer |-> popped.tile.layer_id, cycle |-> s._core_cycles])
            ELSE s1
      s3 == Then(Mark(s2, <<"issue", core_id>>), LAMBDA x : IssueTile(x, core_id))
      emits == Emits(s3._cores[core_id])
      s4 == [Mark(s3, <<"core_cycle", core_id>>) EXCEPT
               !._cores[core_id] = CoreCycle(@, core_id, s3.next_id),
               !.next_id = IF emits THEN @ + 1 ELSE @]
  IN IF emits
     THEN Log(s4, [kind |-> "emit", core |-> core_id, id |-> s3.next_id,
                   access |-> s4._cores[core_id]._request_queue[
                                Len(s4._cores[core_id]._request_queue)]])
     ELSE s4

RECURSIVE CoreLoop(_, _)
CoreLoop(s, core_id) ==
  IF core_id \notin Cores THEN s
  ELSE Then(CoreIteration(s, core_id), LAMBDA x : CoreLoop(x, core_id + 1))

\* The core cycle (Simulator.cc:110-132).
CoreTick(s) ==
  [Then(handle_model(Mark(s, <<"arrivals">>)), LAMBDA x : CoreLoop(x, 0))
     EXCEPT !._core_cycles = @ + 1]

\* For the history: the accesses that the DRAM cycle from d to d1 has made
\* visible in the response queues of the channels ch.. .
RECURSIVE LogResponds(_, _, _, _)
LogResponds(s, d, d1, ch) ==
  IF ch \notin Channels THEN s
  ELSE LET old == Len(d._response_queue[ch])
           new == Len(d1._response_queue[ch])
           add == [i \in 1 .. (new - old) |->
                     [kind |-> "respond", ch |-> ch,
                      access |-> d1._response_queue[ch][old + i],
                      cycles |-> d._cycles]]
       IN LogResponds([s EXCEPT !.hist.events = @ \o add], d, d1, ch + 1)

\* The DRAM cycle (Simulator.cc:135-137).
DramTick(s) ==
  LogResponds([Mark(s, <<"dram_cycle">>) EXCEPT !._dram = DramCycle(@)],
              s._dram, DramCycle(s._dram), 0)

\* Mutant: the endpoint of a request lacks the offset of the memory endpoints.
get_dest_node_NoOffset(access) ==
  IF access.request THEN get_channel_id(access)
  ELSE access.core_id

\* Simulator::get_dest_node
get_dest_node(access) ==
  IF access.request THEN num_cores + get_channel_id(access)
  ELSE access.core_id

\* Mutant: the request is pushed whatever is_full returns.
ForwardRequest_IgnoresFull(s, core_id) ==
  LET c == s._cores[core_id]
  IN IF has_memory_request(c)
     THEN LET front == [top_memory_request(c) EXCEPT !.core_id = core_id]
              c1 == [c EXCEPT !._request_queue[1] = front]
          IN Log([s EXCEPT
                    !._icnt = IcntPush(@, core_id, get_dest_node(front), front),
                    !._cores[core_id] = pop_memory_request(c1)],
                 [kind |-> "icnt_push", hop |-> "core_icnt", src |-> core_id,
                  dst |-> get_dest_node(front), access |-> front,
                  full |-> IcntIsFull(s._icnt, core_id, front),
                  tick |-> s._icnt._cycles, dram_cycles |-> s._dram._cycles])
     ELSE s

\* PUSH core to ICNT: memory request (Simulator.cc:141-149).
ForwardRequest(s, core_id) ==
  LET c == s._cores[core_id]
  IN IF has_memory_request(c)
     THEN LET front == [top_memory_request(c) EXCEPT !.core_id = core_id]
              c1 == [c EXCEPT !._request_queue[1] = front]
          IN IF ~ IcntIsFull(s._icnt, core_id, front)
             THEN Log([s EXCEPT
                         !._icnt = IcntPush(@, core_id, get_dest_node(front), front),
                         !._cores[core_id] = pop_memory_request(c1)],
                      [kind |-> "icnt_push", hop |-> "core_icnt", src |-> core_id,
                       dst |-> get_dest_node(front), access |-> front,
                       full |-> IcntIsFull(s._icnt, core_id, front),
                       tick |-> s._icnt._cycles, dram_cycles |-> s._dram._cycles])
             ELSE Log([s EXCEPT !._cores[core_id] = c1],
                      [kind |-> "blocked", hop |-> "core_icnt", src |-> core_id,
                       access |-> front, tick |-> s._icnt._cycles])
     ELSE s

\* Mutant: the response is delivered but not popped from the interconnect.
DeliverResponse_NoPop(s, core_id) ==
  IF ~ IcntIsEmpty(s._icnt, core_id)
  THEN Log([s EXCEPT
              !._cores[core_id] = push_memory_response(@, IcntTop(s._icnt, core_id))],
           [kind |-> "deliver", core |-> core_id,
            access |-> IcntTop(s._icnt, core_id)])
  ELSE s

\* Push response from ICNT to core (Simulator.cc:150-154).
DeliverResponse(s, core_id) ==
  IF ~ IcntIsEmpty(s._icnt, core_id)
  THEN Log([s EXCEPT
              !._cores[core_id] = push_memory_response(@, IcntTop(s._icnt, core_id)),
              !._icnt = IcntPop(@, core_id)],
           [kind |-> "deliver", core |-> core_id,
            access |-> IcntTop(s._icnt, core_id)])
  ELSE s

\* One iteration of the loop over the cores in the interconnect tick.
IcntCoreSide(s, core_id) ==
  Then(ForwardRequest(s, core_id), LAMBDA x : DeliverResponse(x, core_id))

\* Interconnect to memory (Simulator.cc:159-164).
AcceptRequest(s, mem_id) ==
  LET ep == num_cores + mem_id
  IN IF /\ ~ IcntIsEmpty(s._icnt, ep)
        /\ ~ DramIsFull(s._dram, mem_id, IcntTop(s._icnt, ep))
     THEN LET d1 == DramPush(s._dram, mem_id, IcntTop(s._icnt, ep))
          IN Log([s EXCEPT !._dram = d1, !._icnt = IcntPop(@, ep)],
                 [kind |-> "dram_push", hop |-> "icnt_dram", src |-> ep,
                  ch |-> mem_id, access |-> IcntTop(s._icnt, ep),
                  full |-> DramIsFull(s._dram, mem_id, IcntTop(s._icnt, ep)),
                  tick |-> s._icnt._cycles, cycles |-> s._dram._cycles,
                  ahead |-> Len(s._dram._waiting_queue[mem_id]),
                  first |-> d1._waiting_queue[mem_id][
                              Len(d1._waiting_queue[mem_id])].first])
     ELSE IF ~ IcntIsEmpty(s._icnt, ep)
          THEN Log(s, [kind |-> "blocked", hop |-> "icnt_dram", src |-> ep,
                       access |-> IcntTop(s._icnt, ep), tick |-> s._icnt._cycles])
          ELSE s

\* Memory to interconnect (Simulator.cc:165-169).
ReturnResponse(s, mem_id) ==
  LET ep == num_cores + mem_id
  IN IF /\ ~ DramIsEmpty(s._dram, mem_id)
        /\ ~ IcntIsFull(s._icnt, ep, DramTop(s._dram, mem_id))
     THEN Log([s EXCEPT
                 !._icnt = IcntPush(@, ep, get_dest_node(DramTop(s._dram, mem_id)),
                                    DramTop(s._dram, mem_id)),
                 !._dram = DramPop(@, mem_id)],
              [kind |-> "icnt_push", hop |-> "dram_icnt", src |-> ep,
               dst |-> get_dest_node(DramTop(s._dram, mem_id)),
               access |-> DramTop(s._dram, mem_id),
               full |-> IcntIsFull(s._icnt, ep, DramTop(s._dram, mem_id)),
               tick |-> s._icnt._cycles, dram_cycles |-> s._dram._cycles])
     ELSE IF ~ DramIsEmpty(s._dram, mem_id)
          THEN Log(s, [kind |-> "blocked", hop |-> "dram_icnt", src |-> ep,
                       access |-> DramTop(s._dram, mem_id), tick |-> s._icnt._cycles])
          ELSE s

\* One iteration of the loop over the memory channels (Simulator.cc:158-170).
IcntMemSide(s, mem_id) ==
  Then(AcceptRequest(s, mem_id), LAMBDA x : ReturnResponse(x, mem_id))

RECURSIVE IcntCoreLoop(_, _)
IcntCoreLoop(s, core_id) ==
  IF core_id \notin Cores THEN s
  ELSE Then(IcntCoreSide(s, core_id), LAMBDA x : IcntCoreLoop(x, core_id + 1))

RECURSIVE IcntMemLoop(_, _)
IcntMemLoop(s, mem_id) ==
  IF mem_id \notin Channels THEN s
  ELSE Then(IcntMemSide(s, mem_id), LAMBDA x : IcntMemLoop(x, mem_id + 1))

\* The interconnect cycle (Simulator.cc:139-174).
IcntTick(s) ==
  LET s1 == Then(IcntCoreLoop(Mark(s, <<"forward">>), 0), LAMBDA x : IcntMemLoop(x, 0))
  IN [Mark(s1, <<"icnt_cycle">>) EXCEPT !._icnt = IcntCycle(@)]

\* Mutant: the DRAM is cycled in every step, whatever the mask.
LoopBody_DramAlways(s, mask) ==
  LET a == IF "CORE_MASK" \in mask THEN CoreTick(s) ELSE s
      b == DramTick(a)
  IN IF "ICNT_MASK" \in mask THEN IcntTick(b) ELSE b

\* Mutant: the interconnect part runs before the DRAM cycle.
LoopBody_IcntFirst(s, mask) ==
  LET a == IF "CORE_MASK" \in mask THEN CoreTick(s) ELSE s
      b == IF "ICNT_MASK" \in mask THEN IcntTick(a) ELSE a
  IN IF "DRAM_MASK" \in mask THEN DramTick(b) ELSE b

\* The body of the while loop after set_cycle_mask (Simulator.cc:109-174).
LoopBody(s, mask) ==
  LET a == IF "CORE_MASK" \in mask THEN CoreTick(s) ELSE s
      b == Then(a, LAMBDA x : IF "DRAM_MASK" \in mask THEN DramTick(x) ELSE x)
  IN Then(b, LAMBDA x : IF "ICNT_MASK" \in mask THEN IcntTick(x) ELSE x)

\* Simulator::running
Running(models, cores, icnt, dram, scheduler) ==
  \/ models # <<>>
  \/ \E c \in Cores : CoreRunning(cores[c])
  \/ IcntRunning(icnt)
  \/ DramRunning(dram)
  \/ ~ SchedulerEmpty(scheduler)

running == Running(_models, _cores, _icnt, _dram, _scheduler)

-----------------------------------------------------------------------------
(* The state machine *)

Init ==
  /\ pc = "setup"
  /\ workload \in Workloads
  /\ _config \in [core_freq : CoreFreqs, icnt_freq : IcntFreqs, dram_freq : DramFreqs]
  /\ _core_period = Period(_config.core_freq)
  /\ _icnt_period = Period(_config.icnt_freq)
  /\ _dram_period = Period(_config.dram_freq)
  /\ _core_time = 0
  /\ _dram_time = 0
  /\ _icnt_time = 0
  /\ _core_cycles = 0
  /\ _cycle_mask = {}
  /\ _models = <<>>
  /\ _scheduler = [models |-> <<>>, tiles |-> <<>>, active |-> <<>>]
  /\ _cores = [c \in Cores |-> NewCore]
  /\ _icnt = NewIcnt
  /\ _dram \in {NewDram(g) : g \in LastFinishInit}
  /\ next_id = 1
  /\ hist = [T |-> 0, order |-> <<>>, events |-> <<>>,
             last_finish_init |-> _dram._last_finish_cycle]
  /\ model = NewModel(Req(0, 0, Graph(<<>>, <<>>, <<>>), -1))
  /\ calls = [request |-> Req(0, 0, Graph(<<>>, <<>>, <<>>), -1),
              appended |-> <<>>, dequeued |-> <<>>]

\* Simulator::register_model
RegisterModel ==
  /\ pc = "setup"
  /\ workload # <<>>
  /\ _models' = push_heap(Append(_models, Head(workload)))
  /\ workload' = Tail(workload)
  /\ UNCHANGED <<pc, _config, _core_period, _icnt_period, _dram_period,
                 _core_time, _icnt_time, _dram_time, _core_cycles, _cycle_mask,
                 _scheduler, _cores, _icnt, _dram, next_id, hist,
                 model, calls>>

\* Simulator::run_simulator enters cycle()
RunSimulator ==
  /\ pc = "setup"
  /\ workload = <<>>
  /\ pc' = "run"
  /\ UNCHANGED <<workload, _config, _core_period, _icnt_period, _dram_period,
                 _core_time, _icnt_time, _dram_time, _core_cycles, _cycle_mask,
                 _models, _scheduler, _cores, _icnt, _dram, next_id, hist,
                 model, calls>>

\* One iteration of the while loop of Simulator::cycle
Step ==
  /\ pc = "run"
  /\ running = TRUE
  /\ _core_cycles < MaxCycles
  /\ LET cm == set_cycle_mask(_core_time, _dram_time, _icnt_time,
                              _core_period, _dram_period, _icnt_period)
         s0 == [_models |-> _models, _scheduler |-> _scheduler, _cores |-> _cores,
                _icnt |-> _icnt, _dram |-> _dram, _core_time |-> cm.core_time,
                _core_cycles |-> _core_cycles, next_id |-> next_id,
                hist |-> [hist EXCEPT !.T = MIN3(_core_time, _dram_time, _icnt_time),
                                      !.order = <<>>]]
         s == LoopBody(s0, cm.mask)
     IN /\ _cycle_mask' = cm.mask
        /\ _core_time' = cm.core_time
        /\ _dram_time' = cm.dram_time
        /\ _icnt_time' = cm.icnt_time
        /\ _models' = s._models
        /\ _scheduler' = s._scheduler
        /\ _cores' = s._cores
        /\ _icnt' = s._icnt
        /\ _dram' = s._dram
        /\ _core_cycles' = s._core_cycles
        /\ next_id' = s.next_id
        /\ hist' = s.hist
  /\ UNCHANGED <<pc, workload, _config, _core_period, _icnt_period, _dram_period,
                 model, calls>>

\* The loop of Simulator::cycle exits
Finish ==
  /\ pc = "run"
  /\ running = FALSE
  /\ pc' = "done"
  /\ UNCHANGED <<workload, _config, _core_period, _icnt_period, _dram_period,
                 _core_time, _icnt_time, _dram_time, _core_cycles, _cycle_mask,
                 _models, _scheduler, _cores, _icnt, _dram, next_id, hist,
                 model, calls>>

Next == RegisterModel \/ RunSimulator \/ Step \/ Finish

Spec == Init /\ [][Next]_vars

-----------------------------------------------------------------------------
(* Properties *)

AllMasks == {"CORE_MASK", "DRAM_MASK", "ICNT_MASK"}
minimum_time == MIN3(_core_time, _dram_time, _icnt_time)

\* C5: clock tick rule. In every step, with T the minimum of the three
\* accumulated times at the start of the step, a domain is in the mask iff its
\* time equals T, a ticking domain advances by exactly its period, the others
\* keep their time, and the mask is not empty.
C5_TickRule ==
  [][(pc = "run" /\ running) =>
       /\ ("CORE_MASK" \in _cycle_mask') <=> (_core_time = minimum_time)
       /\ ("DRAM_MASK" \in _cycle_mask') <=> (_dram_time = minimum_time)
       /\ ("ICNT_MASK" \in _cycle_mask') <=> (_icnt_time = minimum_time)
       /\ _core_time' = IF _core_time = minimum_time
                        THEN _core_time + _core_period ELSE _core_time
       /\ _dram_time' = IF _dram_time = minimum_time
                        THEN _dram_time + _dram_period ELSE _dram_time
       /\ _icnt_time' = IF _icnt_time = minimum_time
                        THEN _icnt_time + _icnt_period ELSE _icnt_time
       /\ _cycle_mask' # {}]_vars

\* A step in which the interconnect alone ticked while the other two domains,
\* with different times, stayed put.
C5_Witness ==
  /\ _cycle_mask = {"ICNT_MASK"}
  /\ _core_time # _dram_time
  /\ _icnt_time <= Min(_core_time, _dram_time)

\* C6: clock ratio. Each domain's accumulated time is its number of ticks
\* times its period.
C6_ClockRatio ==
  /\ _core_time = _core_cycles * _core_period
  /\ _dram_time = _dram._cycles * _dram_period
  /\ _icnt_time = _icnt._cycles * _icnt_period

\* The three domains have ticked different numbers of times.
C6_Witness ==
  /\ _core_cycles >= 2
  /\ _dram._cycles >= 1
  /\ _core_cycles > _icnt._cycles
  /\ _icnt._cycles > _dram._cycles

\* C7: bounded clock lag. No domain's accumulated time is more than its own
\* period ahead of the minimum of the three.
C7_BoundedLag ==
  /\ _core_time - minimum_time <= _core_period
  /\ _dram_time - minimum_time <= _dram_period
  /\ _icnt_time - minimum_time <= _icnt_period

\* After several steps the DRAM domain is ahead of the minimum by more than
\* the period of either other domain, and the other two domains differ.
C7_Witness ==
  /\ _dram_time - minimum_time > _core_period
  /\ _dram_time - minimum_time > _icnt_period
  /\ _core_time # _icnt_time
  /\ _dram._cycles >= 2

Events(kind) == {k \in 1 .. Len(hist.events) : hist.events[k].kind = kind}
Ev(k) == hist.events[k]

\* The component updates of a step with mask m, in the order of the loop body.
RECURSIVE CoreOrder(_)
CoreOrder(core_id) ==
  IF core_id \notin Cores THEN <<>>
  ELSE << <<"finish", core_id>>, <<"issue", core_id>>, <<"core_cycle", core_id>> >>
       \o CoreOrder(core_id + 1)

Position(label) ==
  IF \E k \in 1 .. Len(hist.order) : hist.order[k] = label
  THEN CHOOSE k \in 1 .. Len(hist.order) : hist.order[k] = label
  ELSE 0

C10_Routing ==
  /\ \A k \in Events("icnt_push") :
       Ev(k).dst = IF Ev(k).access.request
                   THEN num_cores
                        + ((Ev(k).access.dram_address \div dram_req_size) % dram_channels)
                   ELSE Ev(k).access.core_id
  /\ \A k \in Events("dram_push") : get_channel_id(Ev(k).access) = Ev(k).ch
  /\ \A k \in Events("deliver") :
       /\ ~ Ev(k).access.request
       /\ Ev(k).access.core_id = Ev(k).core
       /\ \E j \in Events("emit") :
            j < k /\ Ev(j).core = Ev(k).core /\ Ev(j).id = Ev(k).access.id

\* Both channels have accepted an access and both cores have received a response.
C10_Witness ==
  /\ \A ch \in Channels : \E k \in Events("dram_push") : Ev(k).ch = ch
  /\ \A c \in Cores : \E k \in Events("deliver") : Ev(k).core = c

\* C2: at most one issued tile per core. No core holds more than one tile in
\* flight; every issue happened with the scheduler non-empty, can_issue true
\* and an INITIALIZED tile; no core is issued two tiles in one core tick.
C2_OneTilePerCore ==
  /\ \A c \in Cores : Len(_cores[c]._tiles) <= 1
  /\ \A k \in Events("issue") :
       Ev(k).nonempty /\ Ev(k).can /\ Ev(k).status = "INITIALIZED"
  /\ \A j, k \in Events("issue") :
       (Ev(j).core = Ev(k).core /\ Ev(j).cycle = Ev(k).cycle) => j = k

\* A core holds a tile while the scheduler still has tiles to hand out, and the
\* other core, idle, was refused one.
C2_Witness ==
  /\ Len(_cores[0]._tiles) = 1
  /\ _scheduler.tiles # <<>>
  /\ _cores[1]._tiles = <<>>
  /\ Events("issue") # {}
  /\ _core_cycles >= 2

\* The operations of the live models.
LiveModels == {_scheduler.models[k] : k \in 1 .. Len(_scheduler.models)}

\* C3: dependency respect. Every operation in a ready-queue, and every layer of
\* which a tile waits in the scheduler or runs on a core, has all producers of
\* its inputs finished; at every issue of a tile all tiles of every producing
\* layer had been reported finished, in no later core cycle.
C3_DependencyRespect ==
  /\ \A m \in LiveModels :
       \A k \in 1 .. Len(m._executable_layer) :
         \A p \in Producers(m, m._executable_layer[k]) : m._operation_map[p].finished
  /\ \A m \in LiveModels :
       \A id \in DOMAIN m._operation_map :
         ( \/ \E k \in 1 .. Len(_scheduler.tiles) : _scheduler.tiles[k].layer_id = id
           \/ \E c \in Cores : \E k \in 1 .. Len(_cores[c]._tiles) :
                _cores[c]._tiles[k].layer_id = id )
         => \A p \in Producers(m, id) : m._operation_map[p].finished
  /\ \A k \in Events("issue") :
       \A p \in Ev(k).deps :
         /\ \E j \in Events("issue") : j < k /\ Ev(j).layer = p
         /\ \A j \in Events("issue") :
              Ev(j).layer = p =>
                /\ Cardinality({f \in Events("finish") : f < k /\ Ev(f).layer = p})
                     = Ev(j).ntiles
                /\ \A f \in Events("finish") :
                     Ev(f).layer = p => (f < k /\ Ev(f).cycle <= Ev(k).cycle)

\* A tile of an operation with two producing operations has been issued.
C3_Witness ==
  \E k \in Events("issue") : Cardinality(Ev(k).deps) = 2

Delivered(id) == {k \in Events("deliver") : Ev(k).access.id = id}
LoopExited == pc = "done" \/ (pc = "run" /\ ~ running)
DramHolds ==
  \E ch \in Channels : _dram._waiting_queue[ch] # <<>> \/ _dram._response_queue[ch] # <<>>

\* C1: conservation of memory accesses. An access pushed into a DRAM channel
\* is delivered at most once, after its push and to the core that emitted it;
\* when the loop exits every accepted access has been delivered exactly once
\* and neither the DRAM queues nor the interconnect hold an access.
C1_Conservation ==
  /\ \A k \in Events("dram_push") :
       /\ Cardinality(Delivered(Ev(k).access.id)) <= 1
       /\ \A d \in Delivered(Ev(k).access.id) :
            d > k /\ Ev(d).core = Ev(k).access.core_id
  /\ LoopExited =>
       /\ \A k \in Events("dram_push") : Cardinality(Delivered(Ev(k).access.id)) = 1
       /\ ~ DramHolds
       /\ ~ IcntRunning(_icnt)

\* The loop has exited after the DRAM accepted at least three accesses.
C1_Witness ==
  pc = "done" /\ Cardinality(Events("dram_push")) >= 3

\* No component holds work that a further step could advance: the heap is
\* empty, no core, interconnect or DRAM queue holds anything, the scheduler has
\* no tile to hand out, no layer outstanding and no model with a ready layer.
Quiescent ==
  /\ pc = "run"
  /\ _models = <<>>
  /\ \A c \in Cores : ~ CoreRunning(_cores[c])
  /\ ~ IcntRunning(_icnt)
  /\ ~ DramHolds
  /\ _scheduler.tiles = <<>>
  /\ DOMAIN _scheduler.active = {}
  /\ \A m \in LiveModels : m._executable_layer = <<>>

\* From a quiescent state a step advances the clocks and nothing else.
QuiescentIsStable ==
  [][Quiescent =>
       /\ Quiescent' \/ pc' = "done"
       /\ UNCHANGED <<_models, _scheduler, _cores, _icnt.in_buf, _icnt.out_buf,
                      _dram._waiting_queue, _dram._response_queue>>]_vars

\* C4: termination. The simulation terminates: once no component holds work
\* that a further step could advance, running() is false, so that the loop
\* exits instead of stepping for ever.
C4_Terminates ==
  Quiescent => ~ running

-----------------------------------------------------------------------------
(* Memory accesses in the queues *)

\* Every place of a queue that holds a MemoryAccess, with the access it holds.
Slots ==
  UNION
    ( {{[q |-> "core", n |-> c, k |-> k, access |-> _cores[c]._request_queue[k]] :
          k \in 1 .. Len(_cores[c]._request_queue)} : c \in Cores}
      \cup
      {{[q |-> "icnt_in", n |-> e, k |-> k, access |-> _icnt.in_buf[e][k].access] :
          k \in 1 .. Len(_icnt.in_buf[e])} : e \in Endpoints}
      \cup
      {{[q |-> "icnt_out", n |-> e, k |-> k, access |-> _icnt.out_buf[e][k]] :
          k \in 1 .. Len(_icnt.out_buf[e])} : e \in Endpoints}
      \cup
      {{[q |-> "dram_waiting", n |-> ch, k |-> k,
         access |-> _dram._waiting_queue[ch][k].second] :
          k \in 1 .. Len(_dram._waiting_queue[ch])} : ch \in Channels}
      \cup
      {{[q |-> "dram_response", n |-> ch, k |-> k,
         access |-> _dram._response_queue[ch][k]] :
          k \in 1 .. Len(_dram._response_queue[ch])} : ch \in Channels} )

\* The events in which the driver or the DRAM handled an access.
Handled == Events("icnt_push") \cup Events("dram_push") \cup Events("respond")
             \cup Events("deliver") \cup Events("blocked")

\* The access as the core created it.
Created(id) == Ev(CHOOSE j \in Events("emit") : Ev(j).id = id).access

Pushed(id) == {k \in Events("dram_push") : Ev(k).access.id = id}

\* C11: MemoryAccess immutability. Every access held in a queue or handled by
\* the driver or the DRAM was created by a core, as a request, and carries
\* the core id, the address and the write flag it was created with; it is a
\* response iff a DRAM push of it has happened, an access is pushed into the
\* DRAM at most once, and it is a request when it is pushed.
C11_Immutability ==
  /\ \A j, k \in Events("emit") : Ev(j).id = Ev(k).id => j = k
  /\ \A j \in Events("emit") : Ev(j).access.request /\ Ev(j).access.core_id = Ev(j).core
  /\ \A h \in Slots :
       /\ \E j \in Events("emit") : Ev(j).id = h.access.id
       /\ h.access.core_id = Created(h.access.id).core_id
       /\ h.access.dram_address = Created(h.access.id).dram_address
       /\ h.access.write = Created(h.access.id).write
       /\ h.access.request <=> (Pushed(h.access.id) = {})
  /\ \A k \in Handled :
       /\ \E j \in Events("emit") : j < k /\ Ev(j).id = Ev(k).access.id
       /\ Ev(k).access.core_id = Created(Ev(k).access.id).core_id
       /\ Ev(k).access.dram_address = Created(Ev(k).access.id).dram_address
       /\ Ev(k).access.write = Created(Ev(k).access.id).write
       /\ Ev(k).access.request <=>
            ({p \in Pushed(Ev(k).access.id) : p < k} = {})
  /\ \A k \in Events("dram_push") : Cardinality(Pushed(Ev(k).access.id)) = 1

\* An access of core 1 has come back to it as a response while another access,
\* pushed into the DRAM, waits there as a response, and a third is still a
\* request in the interconnect.
C11_Witness ==
  /\ \E k \in Events("deliver") : Ev(k).core = 1 /\ ~ Ev(k).access.request
  /\ \E h \in Slots : h.q = "dram_waiting" /\ ~ h.access.request
  /\ \E h \in Slots : h.q \in {"icnt_in", "icnt_out"} /\ h.access.request

\* The attempts of the driver to move the head of the source queue src of a
\* hop: the pushes it performed and the ones it withheld.
Attempts(hop, src) ==
  {k \in Events("icnt_push") \cup Events("dram_push") \cup Events("blocked") :
     Ev(k).hop = hop /\ Ev(k).src = src}

\* The source queue of a hop.
SourceQueue(hop, src) ==
  CASE hop = "core_icnt" -> _cores[src]._request_queue
    [] hop = "icnt_dram" -> _icnt.out_buf[src]
    [] hop = "dram_icnt" -> _dram._response_queue[src - num_cores]

Holders(id) == {h \in Slots : h.access.id = id}

\* C13: single ownership. Every access a core has created is either in exactly
\* one place of one queue (a core's outbound queue, the interconnect, a DRAM
\* waiting queue, a DRAM response queue) or has been delivered, once, to its
\* core, never both; no queue holds anything else.
C13_SingleOwnership ==
  /\ \A j \in Events("emit") :
       Cardinality(Holders(Ev(j).id)) + Cardinality(Delivered(Ev(j).id)) = 1
  /\ \A h \in Slots : \E j \in Events("emit") : Ev(j).id = h.access.id

\* Accesses are held at once by the interconnect, a DRAM waiting queue and a
\* DRAM response queue, and one has been delivered.
C13_Witness ==
  /\ \A q \in {"dram_waiting", "dram_response"} : \E h \in Slots : h.q = q
  /\ \E h \in Slots : h.q \in {"icnt_in", "icnt_out"}
  /\ Events("deliver") # {}

\* The value of the DRAM cycle counter when the access id was accepted by push.
AcceptedAt(id) == Ev(CHOOSE k \in Pushed(id) : TRUE).cycles

\* C14: DRAM latency lower bound. An access accepted by push when the cycle
\* counter was c enters the response queue of its channel in a cycle() call
\* made with the counter at c + dram_latency or more, and whenever it is in
\* the response queue, or the driver takes it from there, the counter is
\* beyond c + dram_latency.
C14_LatencyLowerBound ==
  /\ \A r \in Events("respond") :
       /\ \E k \in Pushed(Ev(r).access.id) : k < r /\ Ev(k).ch = Ev(r).ch
       /\ Ev(r).cycles >= AcceptedAt(Ev(r).access.id) + dram_latency
  /\ \A h \in Slots :
       h.q = "dram_response" =>
         _dram._cycles > AcceptedAt(h.access.id) + dram_latency
  /\ \A k \in Events("icnt_push") :
       Ev(k).hop = "dram_icnt" =>
         /\ \E r \in Events("respond") : r < k /\ Ev(r).access.id = Ev(k).access.id
         /\ Ev(k).dram_cycles > AcceptedAt(Ev(k).access.id) + dram_latency

\* An access has entered the response queue exactly dram_latency cycles after
\* it was accepted, another one later than that, and the driver has taken the
\* first from the response queue.
C14_Witness ==
  /\ \E r \in Events("respond") :
       /\ Ev(r).cycles = AcceptedAt(Ev(r).access.id) + dram_latency
       /\ \E k \in Events("icnt_push") :
            Ev(k).hop = "dram_icnt" /\ Ev(k).access.id = Ev(r).access.id
  /\ \E r \in Events("respond") :
       Ev(r).cycles > AcceptedAt(Ev(r).access.id) + dram_latency

-----------------------------------------------------------------------------
(* The loop of cycle() keeps iterating while running() holds *)

\* The variables of the clock.
clock == <<_cycle_mask, _core_time, _dram_time, _icnt_time>>

\* An iteration of the loop begins: set_cycle_mask advances the clock
\* (Simulator.cc:105-108). Every Step is such a step, and under Next nothing
\* else is.
Iterate ==
  /\ pc = "run"
  /\ running = TRUE
  /\ _core_cycles < MaxCycles
  /\ LET cm == set_cycle_mask(_core_time, _dram_time, _icnt_time,
                              _core_period, _dram_period, _icnt_period)
     IN /\ _cycle_mask' = cm.mask
        /\ _core_time' = cm.core_time
        /\ _dram_time' = cm.dram_time
        /\ _icnt_time' = cm.icnt_time

\* The loop is sequential code: as long as its condition holds it makes its
\* next iteration.
FairSpec == Spec /\ WF_clock(Iterate)

RECURSIVE SumSeq(_)
SumSeq(q) == IF q = <<>> THEN 0 ELSE Head(q) + SumSeq(Tail(q))

\* The number of memory accesses the tiles of a workload ask for.
WorkloadAccesses(w) ==
  SumSeq([i \in 1 .. Len(w) |->
    SumSeq([n \in 1 .. Len(w[i].graph.node) |->
      SumSeq([j \in 1 .. Len(w[i].graph.node[n].tiles) |->
                Len(w[i].graph.node[n].tiles[j].accs)])])])

\* The ids an access can have.
AccessIds ==
  1 .. (CHOOSE n \in {WorkloadAccesses(w) : w \in Workloads} :
          \A w \in Workloads : WorkloadAccesses(w) <= n)

Responded(id) ==
  \E r \in Events("respond") :
    /\ Ev(r).access.id = id
    /\ \E k \in Pushed(id) : k < r /\ Ev(k).ch = Ev(r).ch

\* C15: DRAM eventual response. While the loop keeps iterating, every access
\* accepted by push(ch, request) eventually enters the response queue of
\* channel ch.
C15_EventualResponse ==
  \A id \in AccessIds : (Pushed(id) # {}) ~> Responded(id)

\* An access accepted while another one was waiting ahead of it in its
\* channel, and while the other channel held an access too, has entered the
\* response queue.
C15_Witness ==
  \E k \in Events("dram_push") :
    /\ Ev(k).ahead >= 1
    /\ Responded(Ev(k).access.id)
    /\ \E j \in Events("dram_push"), r \in Events("respond") :
         /\ j < k /\ k < r
         /\ Ev(j).ch # Ev(k).ch
         /\ Ev(r).access.id = Ev(j).access.id

\* C16: DRAM per-channel serialization. No two accesses enter the response
\* queue of one channel in the same cycle() call.
C16_Serialization ==
  \A r, q \in Events("respond") :
    (Ev(r).ch = Ev(q).ch /\ Ev(r).cycles = Ev(q).cycles) => r = q

\* Two accesses accepted by one channel with the same ready stamp have entered
\* its response queue, in different cycle() calls.
C16_Witness ==
  \E j, k \in Events("dram_push") :
    /\ j # k
    /\ Ev(j).ch = Ev(k).ch
    /\ Ev(j).first = Ev(k).first
    /\ \E r, q \in Events("respond") :
         /\ Ev(r).access.id = Ev(j).access.id
         /\ Ev(q).access.id = Ev(k).access.id
         /\ Ev(r).cycles # Ev(q).cycles

-----------------------------------------------------------------------------
(* Model.cc on its own: a Model object is constructed for a request, loaded   *)
(* by initialize_model, and then set_layer_finish and get_executable_tile are *)
(* called in any order, each operation being marked finished at most once.    *)

\* diamond: A feeds B and C, D joins them
GDiamond ==
  Graph(<<Input("x", <<1, 3, 8, 8>>)>>, <<"w">>,
        << Node("Conv", {"x", "w"}, {"a"}, <<>>),
           Node("Gemm", {"a"}, {"b"}, <<>>),
           Node("Gemm", {"a", "w"}, {"c"}, <<>>),
           Node("Conv", {"b", "c"}, {"d"}, <<>>) >>)

\* A has two outputs, both consumed by B
GDouble ==
  Graph(<<Input("x", <<1, 3, 8, 8>>)>>, <<>>,
        << Node("Conv", {"x"}, {"a1", "a2"}, <<>>),
           Node("Gemm", {"a1", "a2"}, {"b"}, <<>>),
           Node("Gemm", {"b", "x"}, {"c"}, <<>>) >>)

\* five SkipLayerNormalization nodes with other nodes between and after them
GAtten5 ==
  Graph(<<Input("x", <<1, 16, 4>>)>>, <<>>,
        << Node("SkipLayerNormalization", {"x"}, {"a"}, <<>>),
           Node("Gemm", {"a"}, {"b"}, <<>>),
           Node("SkipLayerNormalization", {"b"}, {"c"}, <<>>),
           Node("SkipLayerNormalization", {"c"}, {"d"}, <<>>),
           Node("Custom", {"d"}, {"u"}, <<>>),
           Node("SkipLayerNormalization", {"d"}, {"e"}, <<>>),
           Node("SkipLayerNormalization", {"e"}, {"f"}, <<>>),
           Node("Gemm", {"f"}, {"g"}, <<>>) >>)

\* one operator consuming every model input
GInputs(inputs) ==
  Graph(inputs, <<>>,
        << Node("Conv", {inputs[k].name : k \in 1 .. Len(inputs)}, {"a"}, <<>>) >>)

\* The shapes a model input is declared with.
InputDims ==
  { <<1, 3, 8, 8>>, <<1, 8, 8, 3>>, <<1, 3, 8, 4>>, <<2, 4, 4, 4>>, <<1, 3, 3, 8>>,
    <<8, 8>>, <<1, 8, 8>>, <<1, 1, 3, 8, 8>> }

ModelGraphs ==
  {GSingle, GChain, GJoin, GSkipped, GAtten, GContend, GFan, GDiamond, GDouble, GAtten5}
  \cup {GInputs(<<Input("x", d)>>) : d \in InputDims}
  \cup {GInputs(<<Input("x", d), Input("y", e)>>) :
          d \in {<<1, 3, 8, 8>>, <<1, 8, 8, 3>>}, e \in {<<1, 3, 8, 8>>, <<8, 8>>}}

\* The values of the key nr_atten of the model's configuration.
NrAttens == {-2, -1, 0, 1, 2}

ModelRequests == {Req(1, 0, g, k) : g \in ModelGraphs, k \in NrAttens}

simvars == <<workload, _config, _core_period, _icnt_period, _dram_period,
             _core_time, _icnt_time, _dram_time, _core_cycles, _cycle_mask,
             _models, _scheduler, _cores, _icnt, _dram, next_id, hist>>

ModelInit ==
  /\ pc = "constructed"
  /\ calls \in {[request |-> r, appended |-> <<>>, dequeued |-> <<>>] :
                  r \in ModelRequests}
  /\ model = NewModel(calls.request)
  /\ workload = <<>>
  /\ _config = [core_freq |-> 1000, icnt_freq |-> 1000, dram_freq |-> 1000]
  /\ _core_period = Period(_config.core_freq)
  /\ _icnt_period = Period(_config.icnt_freq)
  /\ _dram_period = Period(_config.dram_freq)
  /\ _core_time = 0
  /\ _dram_time = 0
  /\ _icnt_time = 0
  /\ _core_cycles = 0
  /\ _cycle_mask = {}
  /\ _models = <<>>
  /\ _scheduler = [models |-> <<>>, tiles |-> <<>>, active |-> <<>>]
  /\ _cores = [c \in Cores |-> NewCore]
  /\ _icnt = NewIcnt
  /\ _dram = NewDram(0)
  /\ next_id = 1
  /\ hist = [T |-> 0, order |-> <<>>, events |-> <<>>, last_finish_init |-> 0]

\* Model::initialize_model
InitializeModel ==
  /\ pc = "constructed"
  /\ model' = initialize_model(calls.request)
  /\ calls' = [calls EXCEPT !.appended = model'._executable_layer]
  /\ pc' = "loaded"
  /\ UNCHANGED simvars

\* Model::set_layer_finish(id) for an operation not yet marked finished
SetLayerFinish ==
  /\ pc = "loaded"
  /\ \E id \in DOMAIN model._operation_map :
       /\ ~ model._operation_map[id].finished
       /\ model' = set_layer_finish(model, id)
       /\ calls' = [calls EXCEPT
                      !.appended = @ \o SubSeq(model'._executable_layer,
                                               Len(model._executable_layer) + 1,
                                               Len(model'._executable_layer))]
  /\ UNCHANGED <<pc, simvars>>

\* Model::get_executable_tile
GetExecutableTile ==
  /\ pc = "loaded"
  /\ model' = get_executable_tile(model).model
  /\ calls' = IF get_executable_tile(model).op = 0 THEN calls
              ELSE [calls EXCEPT !.dequeued = Append(@, get_executable_tile(model).op)]
  /\ UNCHANGED <<pc, simvars>>

ModelNext == InitializeModel \/ SetLayerFinish \/ GetExecutableTile

ModelSpec == ModelInit /\ [][ModelNext]_vars

NoDuplicates(q) == \A i, j \in 1 .. Len(q) : q[i] = q[j] => i = j

\* C17: ready-queue uniqueness. No operation appears twice in the ready-queue,
\* none has been appended to it twice, and the queue holds, in the order of
\* insertion, exactly the appended operations that have not been dequeued:
\* it is served first in, first out.
C17_ReadyQueueUnique ==
  /\ NoDuplicates(model._executable_layer)
  /\ NoDuplicates(calls.appended)
  /\ calls.dequeued \o model._executable_layer = calls.appended

\* Every operation of a model of at least three has been appended, dequeued
\* and finished, one of them listed twice among the children of the operation
\* whose finish made it executable.
C17_Witness ==
  /\ pc = "loaded"
  /\ Len(calls.dequeued) >= 3
  /\ Len(calls.dequeued) = Cardinality(DOMAIN model._operation_map)
  /\ check_finish(model)
  /\ \E id \in DOMAIN model._operation_map :
       ~ NoDuplicates(get_child_nodes(model, id))

\* The model inputs of the request, as declared.
DeclaredInputs == calls.request.graph.input

NHWC(d) == <<d[1], d[3], d[4], d[2]>>

\* Every model input of rank 4 is stored channel-last iff its dimensions i and
\* i + 1 are equal, and the inputs of other ranks are stored as declared.
ConvertedIffEqual(i) ==
  \A k \in 1 .. Len(DeclaredInputs) :
    LET d == DeclaredInputs[k].dims
    IN model.shapes[DeclaredInputs[k].name] =
         IF Len(d) = 4 /\ d[i] = d[i + 1] THEN NHWC(d) ELSE d

\* C18 as stated: every model input of rank 4 is stored channel-last iff its
\* middle two dimensions are equal, however many inputs the model has, and
\* inputs of other ranks are stored as declared; "the middle two" read as the
\* second and third of [N, C, H, W], or else as the two spatial ones.
C18_EveryInput ==
  pc = "loaded" => (ConvertedIffEqual(2) \/ ConvertedIffEqual(3))

\* C18 amended: a model input is stored channel-last, [N, H, W, C] for the
\* declared [N, C, H, W], iff it is the only input of the model, has rank 4
\* and its last two dimensions are equal; every other input is stored as
\* declared.
C18_SingleInputLastTwo ==
  pc = "loaded" =>
    /\ DOMAIN model.shapes = {DeclaredInputs[k].name : k \in 1 .. Len(DeclaredInputs)}
    /\ \A k \in 1 .. Len(DeclaredInputs) :
         LET d == DeclaredInputs[k].dims
         IN model.shapes[DeclaredInputs[k].name] =
              IF Len(DeclaredInputs) = 1 /\ Len(d) = 4 /\ d[3] = d[4]
              THEN <<d[1], d[3], d[4], d[2]>>
              ELSE d

\* The only input of a model, of rank 4 with equal last two dimensions that
\* differ from the second, has been stored with its dimensions permuted.
C18_Witness ==
  /\ pc = "loaded"
  /\ Len(DeclaredInputs) = 1
  /\ Len(DeclaredInputs[1].dims) = 4
  /\ DeclaredInputs[1].dims[3] = DeclaredInputs[1].dims[4]
  /\ DeclaredInputs[1].dims[2] # DeclaredInputs[1].dims[3]
  /\ model.shapes[DeclaredInputs[1].name] # DeclaredInputs[1].dims

\* The nodes of the request's graph for which the factory creates an operation.
KnownNodes ==
  {i \in 1 .. Len(calls.request.graph.node) :
     calls.request.graph.node[i].op_type \in KnownOpTypes}

SkipNodes ==
  {i \in KnownNodes : calls.request.graph.node[i].op_type = "SkipLayerNormalization"}

\* The position of the n-th SkipLayerNormalization node, 0 if there is none.
NthSkip(n) ==
  IF \E i \in SkipNodes : Cardinality({j \in SkipNodes : j <= i}) = n
  THEN CHOOSE i \in SkipNodes : Cardinality({j \in SkipNodes : j <= i}) = n
  ELSE 0

\* The operations loaded are those of the known nodes up to position last,
\* with the outputs of their nodes, except that the one at position cleared
\* has none.
LoadedUpTo(last, cleared) ==
  /\ DOMAIN model._operation_map =
       {generate_id(calls.request.id, i) : i \in {j \in KnownNodes : j <= last}}
  /\ \A i \in {j \in KnownNodes : j <= last} :
       model._operation_map[generate_id(calls.request.id, i)].outputs =
         IF i = cleared THEN {} ELSE calls.request.graph.node[i].output

\* C19 as stated: with nr_atten = k >= 1 and at least 2k SkipLayerNormalization
\* nodes in the graph, exactly the nodes up to and including the 2k-th such
\* node are loaded and that node's outputs are cleared; with nr_atten
\* negative every node is loaded, outputs untouched. (k = 0 is left out: there
\* is no 0-th node to speak of.)
C19_Truncation ==
  pc = "loaded" =>
    LET k == calls.request.nr_atten
    IN /\ (k >= 1 /\ NthSkip(2 * k) # 0) => LoadedUpTo(NthSkip(2 * k), NthSkip(2 * k))
       /\ k < 0 => LoadedUpTo(Len(calls.request.graph.node), 0)

\* What the code does: the sentinel is -1 alone; for every other value the
\* graph is cut at the first SkipLayerNormalization node at which the count
\* has reached 2 * nr_atten, which for nr_atten <= 0 is the first such node.
C19_CodeRule ==
  pc = "loaded" =>
    LET k == calls.request.nr_atten
        cut == IF k = -1 THEN 0 ELSE NthSkip(IF k >= 1 THEN 2 * k ELSE 1)
    IN IF cut = 0 THEN LoadedUpTo(Len(calls.request.graph.node), 0)
       ELSE LoadedUpTo(cut, cut)

\* A graph with several SkipLayerNormalization nodes has been loaded with
\* nr_atten = -2 and cut at the first of them.
C19_Witness ==
  /\ pc = "loaded"
  /\ calls.request.nr_atten = -2
  /\ Cardinality(SkipNodes) >= 2
  /\ Cardinality(DOMAIN model._operation_map) < Cardinality(KnownNodes)

\* The stamps of a waiting queue, head first.
Stamps(ch) == [k \in 1 .. Len(_dram._waiting_queue[ch]) |-> _dram._waiting_queue[ch][k].first]

\* C20: no head-of-line blocking in SimpleDram. When _last_finish_cycle starts
\* at 0: the stamp of every accepted access is the cycle counter at its push
\* plus dram_latency; stamps do not decrease in push order, over all channels;
\* in every waiting queue the stamps do not decrease from head to tail, so
\* that the head is ready whenever any entry is; and the accesses of a channel
\* enter its response queue in the order in which they were accepted.
C20_NoHeadOfLineBlocking ==
  hist.last_finish_init = 0 =>
    /\ \A k \in Events("dram_push") : Ev(k).first = Ev(k).cycles + dram_latency
    /\ \A j, k \in Events("dram_push") : j < k => Ev(j).first <= Ev(k).first
    /\ \A ch \in Channels :
         /\ \A i, j \in 1 .. Len(Stamps(ch)) : i < j => Stamps(ch)[i] <= Stamps(ch)[j]
         /\ (\E i \in 1 .. Len(Stamps(ch)) : Stamps(ch)[i] <= _dram._cycles)
              => DramReady(_dram, ch)
    /\ \A r, q \in Events("respond") :
         (Ev(r).ch = Ev(q).ch /\ r < q) =>
           \E j \in Pushed(Ev(r).access.id), k \in Pushed(Ev(q).access.id) : j < k

\* With _last_finish_cycle starting at 0, two accesses accepted in the same
\* DRAM cycle by different channels carry the same stamp, a waiting queue has
\* held two entries, and two accesses of one channel have been answered.
C20_Witness ==
  /\ hist.last_finish_init = 0
  /\ \E j, k \in Events("dram_push") :
       Ev(j).ch # Ev(k).ch /\ Ev(j).cycles = Ev(k).cycles
  /\ \E k \in Events("dram_push") : Ev(k).ahead >= 1
  /\ \E r, q \in Events("respond") : r # q /\ Ev(r).ch = Ev(q).ch

====
